---- MODULE Spec2Model ----
(***************************************************************************)
(* The Lox playground (LoxPlayground component): the Run handler runCode,  *)
(* the print callback handed to wasm.run, the catch block, the example     *)
(* selector and the editor change handler, over the two pieces of React    *)
(* state `messages` (the Session Log) and `code` (the Source Buffer).      *)
(*                                                                         *)
(* JavaScript is single threaded: a handler runs to completion before the  *)
(* next event is dispatched.  runCode is split at the points where control *)
(* is inside wasm.run (the runtime calls the print callback, returns or    *)
(* throws); no other handler is enabled while pc = "running".              *)
(***************************************************************************)
EXTENDS Integers, Sequences, FiniteSets, TLC

\* ---------------------------------------------------------------- bounds
MaxIds    == 3      \* at most this many messages are created in a session
MaxPrints == 2      \* at most this many print callback invocations per run
MaxClock  == 1      \* the wall clock takes the values 0..MaxClock
MaxLen    == 3      \* the tokenizer is given lines of at most this many characters

\* ------------------------------------------------------------ input sets
\* texts the runtime passes to the print callback
PrintTexts == {"hi", "1"}

\* descriptive texts carried by failures
FailureTexts == {"Undefined variable 'x'.", "stack overflow"}

\* the values wasm.run can throw: an Error object, a bare string, a number
Exceptions ==
    {[shape |-> "Error", message |-> t] : t \in FailureTexts}
      \cup {[shape |-> "string", value |-> t] : t \in FailureTexts}
      \cup {[shape |-> "number", value |-> 42]}

NoException == [shape |-> "none"]

\* examples.json: the ordered example catalog
examples ==
    << [name |-> "Hello", code |-> "print \"hi\";"],
       [name |-> "Fibonacci", code |-> "fun fib(n) { ... } print fib(10);"] >>

ExampleNames == {examples[i].name : i \in 1..Len(examples)}

\* the values the selector's change event can carry: an option's name, or a
\* string that names no catalog entry
SelectValues == ExampleNames \cup {"Missing"}

\* what the editor reports on a change: a text, or undefined
Undefined == "<undefined>"
EditorValues == {"print x;", Undefined}

VARIABLES
    messages,          \* React state: the Session Log
    code,              \* React state: the Source Buffer
    rMessages,         \* `messages` as captured by the handlers of the last render
    rCode,             \* `code` as captured by the handlers of the last render
    pc,                \* "idle", or "running" while control is inside wasm.run
    emittedMessages,   \* the array of the current / most recent run
    nextId,            \* number of ids handed out by crypto.randomUUID so far
    now,               \* the wall clock read by new Date()
    ran,               \* a run has been started (the runtime holds a callback)
    source,            \* history: the text passed to wasm.run by that run
    calls,             \* history: the callback invocations of that run
    exception,         \* history: the value wasm.run threw, or NoException
    flushed,           \* history: that run reached setMessages
    batch,             \* history: the array contents that run handed to setMessages
    lastInput,         \* history: the last example selection or editor change
    prev,              \* history: the run before the current one, if it was given the same text
    line,              \* the line of text the tokenizer is scanning
    pos,               \* number of characters of `line` already consumed
    tokens             \* the tokens produced for `line` so far

\* the state of the tokenizer
lexVars == << line, pos, tokens >>

\* the state of the playground
appVars == << messages, code, rMessages, rCode, pc, emittedMessages, nextId, now,
              ran, source, calls, exception, flushed, batch, lastInput, prev >>

vars == << messages, code, rMessages, rCode, pc, emittedMessages, nextId, now,
           ran, source, calls, exception, flushed, batch, lastInput, prev,
           line, pos, tokens >>

\* ------------------------------------------------------- pure operators

\* enum MessageType
MessageType == {"Print", "Error"}

\* variant of randomUUID that hands out the same identifier every time
randomUUIDConstant(n) == 0

\* crypto.randomUUID(): an identifier that was not handed out before
randomUUID(n) == n

\* variant of PrintMessage tagged with the wrong enum member
PrintMessageAsError(id, text, at) ==
    [id |-> id, type |-> "Error", text |-> text, occurredAt |-> at]

\* {id, type: MessageType.Print, text: message, occurredAt: new Date()}
PrintMessage(id, text, at) ==
    [id |-> id, type |-> "Print", text |-> text, occurredAt |-> at]

\* {id, type: MessageType.Error, text, occurredAt: new Date()}
ErrorMessage(id, text, at) ==
    [id |-> id, type |-> "Error", text |-> text, occurredAt |-> at]

\* variant of push that inserts at the front (Array.prototype.unshift)
unshift(arr, m) == << m >> \o arr

\* Array.prototype.push
push(arr, m) == Append(arr, m)

\* exception instanceof Error
InstanceOfError(e) == e.shape = "Error"

\* typeof exception
TypeOf(e) == IF e.shape = "Error" THEN "object" ELSE e.shape

\* variant of the catch clause that lets everything but Error objects escape
CaughtOnlyError(e) == InstanceOfError(e)

\* catch (exception: unknown): the clause has no filter
Caught(e) == TRUE

\* variant of the catch block that reports the failure and then reports it
\* once more through a trailing unconditional push
CatchBlockTwice(arr, e, id, at) ==
    LET first == IF InstanceOfError(e)
                   THEN push(arr, ErrorMessage(id, e.message, at))
                   ELSE IF TypeOf(e) = "string"
                          THEN push(arr, ErrorMessage(id, e.value, at))
                          ELSE arr
    IN  push(first, ErrorMessage(id + 1, "Unknown error", at))

\* variant of the catch block that reports a fixed text instead of the
\* failure's own text
CatchBlockGeneric(arr, e, id, at) ==
    IF InstanceOfError(e)
      THEN push(arr, ErrorMessage(id, "Error", at))
      ELSE IF TypeOf(e) = "string"
             THEN push(arr, ErrorMessage(id, "Error", at))
             ELSE arr

\* the catch block: what emittedMessages holds after it
CatchBlock(arr, e, id, at) ==
    IF InstanceOfError(e)
      THEN push(arr, ErrorMessage(id, e.message, at))
      ELSE IF TypeOf(e) = "string"
             THEN push(arr, ErrorMessage(id, e.value, at))
             ELSE arr

\* [...messages, ...emittedMessages]
Spread(msgs, emitted) == msgs \o emitted

\* variant of useState in which the handlers keep the value they captured
\* first (a stale closure)
useStateStale(state, captured) == captured

\* useState: the value a render hands to the handlers it creates
useState(state, captured) == state

\* variant of the lookup whose predicate accepts every entry
FindCodeFirst(name) == examples[1].code

\* examples.find((example) => example.name === name)?.code ?? ""
FindCode(name) ==
    IF \E i \in 1..Len(examples) : examples[i].name = name
      THEN examples[CHOOSE i \in 1..Len(examples) :
                      /\ examples[i].name = name
                      /\ \A j \in 1..(i-1) : examples[j].name # name].code
      ELSE ""

\* variant of the editor fallback that passes undefined through
OrEmptyIdentity(v) == v

\* newCode ?? ""
OrEmpty(v) == IF v = Undefined THEN "" ELSE v

\* the (type, text) pairs of a sequence of messages
KindText(seq) == [i \in 1..Len(seq) |-> << seq[i].type, seq[i].text >>]

\* no example was selected and the editor reported no change yet
NoInput == [kind |-> "none", arg |-> ""]

\* no run has completed before the current one
NoRun == [valid |-> FALSE, source |-> "", texts |-> << >>,
          exception |-> NoException, kt |-> << >>]

\* ------------------------------------------------------------- the state

InitPlayground ==
    /\ messages = << >>
    /\ code = examples[1].code
    /\ rMessages = << >>
    /\ rCode = examples[1].code
    /\ pc = "idle"
    /\ emittedMessages = << >>
    /\ nextId = 0
    /\ now = 0
    /\ ran = FALSE
    /\ source = ""
    /\ calls = << >>
    /\ exception = NoException
    /\ flushed = FALSE
    /\ batch = << >>
    /\ lastInput = NoInput
    /\ prev = NoRun

\* the playground as mounted; the tokenizer has not been given a line
Init ==
    /\ InitPlayground
    /\ line = << >>
    /\ pos = 0
    /\ tokens = << >>

\* the wall clock advances
Tick ==
    /\ now < MaxClock
    /\ now' = now + 1
    /\ UNCHANGED << messages, code, rMessages, rCode, pc, emittedMessages, nextId,
                    ran, source, calls, exception, flushed, batch >>
    /\ UNCHANGED << lastInput, prev, line, pos, tokens >>

\* variant of runCode whose array lives outside the function and is never
\* emptied
StartRunKeepArray ==
    /\ pc = "idle"
    /\ pc' = "running"
    /\ emittedMessages' = emittedMessages
    /\ ran' = TRUE
    /\ source' = rCode
    /\ calls' = << >>
    /\ exception' = NoException
    /\ flushed' = FALSE
    /\ batch' = << >>
    /\ UNCHANGED << messages, code, rMessages, rCode, nextId, now >>
    /\ UNCHANGED << lastInput, line, pos, tokens >>

\* runCode up to the call of wasm.run
StartRun ==
    /\ pc = "idle"
    /\ pc' = "running"
    /\ emittedMessages' = << >>
    /\ ran' = TRUE
    /\ source' = rCode
    /\ calls' = << >>
    /\ exception' = NoException
    /\ flushed' = FALSE
    /\ batch' = << >>
    /\ UNCHANGED << messages, code, rMessages, rCode, nextId, now >>
    /\ UNCHANGED << lastInput, line, pos, tokens >>

\* onClick of the Run button
ClickRun ==
    /\ StartRun
    /\ UNCHANGED prev

\* variant of the print callback that also writes each message to the log
\* as soon as it is created
OnPrintFlushing(text) ==
    /\ pc = "running"
    /\ Len(calls) < MaxPrints
    /\ nextId < MaxIds
    /\ emittedMessages' = push(emittedMessages, PrintMessage(randomUUID(nextId), text, now))
    /\ messages' = Append(messages, PrintMessage(randomUUID(nextId), text, now))
    /\ nextId' = nextId + 1
    /\ calls' = Append(calls, [text |-> text, deferred |-> FALSE])
    /\ UNCHANGED << code, rMessages, rCode, pc, now, ran, source,
                    exception, flushed, batch >>
    /\ UNCHANGED << lastInput, prev, line, pos, tokens >>

\* the runtime invokes the print callback inside wasm.run
OnPrint(text) ==
    /\ pc = "running"
    /\ Len(calls) < MaxPrints
    /\ nextId < MaxIds
    /\ emittedMessages' = push(emittedMessages, PrintMessage(randomUUID(nextId), text, now))
    /\ nextId' = nextId + 1
    /\ calls' = Append(calls, [text |-> text, deferred |-> FALSE])
    /\ UNCHANGED << messages, code, rMessages, rCode, pc, now, ran, source,
                    exception, flushed, batch >>
    /\ UNCHANGED << lastInput, prev, line, pos, tokens >>

\* setMessages(next) followed by the re-render React performs for it
SetMessagesAndRender(next) ==
    /\ messages' = next
    /\ rMessages' = useState(next, rMessages)
    /\ rCode' = useState(code, rCode)

\* variant of the normal return path that also empties the editor
RuntimeReturnClearing ==
    /\ pc = "running"
    /\ SetMessagesAndRender(Spread(rMessages, emittedMessages))
    /\ code' = ""
    /\ batch' = emittedMessages
    /\ flushed' = TRUE
    /\ pc' = "idle"
    /\ UNCHANGED << emittedMessages, nextId, now, ran, source, calls, exception >>
    /\ UNCHANGED << lastInput, prev, line, pos, tokens >>

\* wasm.run returns normally: runCode continues to setMessages
RuntimeReturn ==
    /\ pc = "running"
    /\ SetMessagesAndRender(Spread(rMessages, emittedMessages))
    /\ batch' = emittedMessages
    /\ flushed' = TRUE
    /\ pc' = "idle"
    /\ UNCHANGED << code, emittedMessages, nextId, now, ran, source, calls, exception >>
    /\ UNCHANGED << lastInput, prev, line, pos, tokens >>

\* wasm.run throws e: the catch block, then setMessages
RuntimeThrow(e) ==
    /\ pc = "running"
    /\ nextId < MaxIds
    /\ exception' = e
    /\ pc' = "idle"
    /\ IF Caught(e)
         THEN /\ emittedMessages' = CatchBlock(emittedMessages, e, randomUUID(nextId), now)
              /\ nextId' = nextId + (Len(emittedMessages') - Len(emittedMessages))
              /\ SetMessagesAndRender(Spread(rMessages, emittedMessages'))
              /\ batch' = emittedMessages'
              /\ flushed' = TRUE
         ELSE /\ UNCHANGED << emittedMessages, nextId, messages, rMessages, rCode, batch >>
              /\ flushed' = FALSE
    /\ UNCHANGED << code, now, ran, source, calls >>
    /\ UNCHANGED << lastInput, prev, line, pos, tokens >>

\* the runtime invokes the callback of the most recent run after wasm.run
\* has returned: the callback still pushes to that run's array
DeferredPrint(text) ==
    /\ pc = "idle"
    /\ ran
    /\ Len(calls) < MaxPrints
    /\ nextId < MaxIds
    /\ emittedMessages' = push(emittedMessages, PrintMessage(randomUUID(nextId), text, now))
    /\ nextId' = nextId + 1
    /\ calls' = Append(calls, [text |-> text, deferred |-> TRUE])
    /\ UNCHANGED << messages, code, rMessages, rCode, pc, now, ran, source,
                    exception, flushed, batch >>
    /\ UNCHANGED << lastInput, prev, line, pos, tokens >>

\* variant of setCode after which the handlers keep the text they captured
SetCodeNoRender(next) ==
    /\ code' = next
    /\ rCode' = rCode
    /\ rMessages' = rMessages

\* setCode(next) followed by the re-render React performs for it
SetCodeAndRender(next) ==
    /\ code' = next
    /\ rCode' = useState(next, rCode)
    /\ rMessages' = useState(messages, rMessages)

\* onChange of the example selector
SelectExample(name) ==
    /\ pc = "idle"
    /\ SetCodeAndRender(FindCode(name))
    /\ lastInput' = [kind |-> "select", arg |-> name]
    /\ UNCHANGED << messages, pc, emittedMessages, nextId, now, ran, source,
                    calls, exception, flushed, batch >>
    /\ UNCHANGED << prev, line, pos, tokens >>

\* variant of the editor change handler that also empties the log
EditorChangeClearing(newCode) ==
    /\ pc = "idle"
    /\ SetCodeAndRender(OrEmpty(newCode))
    /\ lastInput' = [kind |-> "edit", arg |-> newCode]
    /\ messages' = << >>
    /\ UNCHANGED << pc, emittedMessages, nextId, now, ran, source,
                    calls, exception, flushed, batch >>
    /\ UNCHANGED << prev, line, pos, tokens >>

\* onChange of LoxEditor
EditorChange(newCode) ==
    /\ pc = "idle"
    /\ SetCodeAndRender(OrEmpty(newCode))
    /\ lastInput' = [kind |-> "edit", arg |-> newCode]
    /\ UNCHANGED << messages, pc, emittedMessages, nextId, now, ran, source,
                    calls, exception, flushed, batch >>
    /\ UNCHANGED << prev, line, pos, tokens >>

\* React renders LoxPlayground again
ReRender ==
    /\ pc = "idle"
    /\ rMessages' = useState(messages, rMessages)
    /\ rCode' = useState(code, rCode)
    /\ UNCHANGED << messages, code, pc, emittedMessages, nextId, now, ran, source,
                    calls, exception, flushed, batch >>
    /\ UNCHANGED << lastInput, prev, line, pos, tokens >>

Next ==
    \/ Tick
    \/ ClickRun
    \/ \E text \in PrintTexts : OnPrint(text)
    \/ RuntimeReturn
    \/ \E e \in Exceptions : RuntimeThrow(e)
    \/ \E text \in PrintTexts : DeferredPrint(text)
    \/ \E name \in ExampleNames : SelectExample(name)
    \/ \E newCode \in EditorValues : EditorChange(newCode)
    \/ ReRender

Spec == Init /\ [][Next]_vars

\* ------------------------------------- any value in the selector's event

NextAnyName ==
    \/ Tick
    \/ ClickRun
    \/ \E text \in PrintTexts : OnPrint(text)
    \/ RuntimeReturn
    \/ \E e \in Exceptions : RuntimeThrow(e)
    \/ \E text \in PrintTexts : DeferredPrint(text)
    \/ \E name \in SelectValues : SelectExample(name)
    \/ \E newCode \in EditorValues : EditorChange(newCode)
    \/ ReRender

SpecAnyName == Init /\ [][NextAnyName]_vars

\* ------------------------------------------------ a deterministic runtime
\* The runtime is free the first time it is given a source text; given the
\* text of the run before, it makes the same callback invocations and ends
\* the same way.

\* onClick of the Run button, remembering the run that completed before it
\* when this run is given the same text
ClickRunRecording ==
    /\ StartRun
    /\ prev' = IF ran /\ flushed /\ source = rCode
                THEN [valid |-> TRUE, source |-> source,
                      texts |-> [i \in 1..Len(SelectSeq(calls, LAMBDA c : ~c.deferred)) |->
                                   SelectSeq(calls, LAMBDA c : ~c.deferred)[i].text],
                      exception |-> exception, kt |-> KindText(batch)]
                ELSE NoRun

\* the current run was given the text of the run before it
Replaying == prev.valid /\ prev.source = source

DetOnPrint(text) ==
    /\ Replaying => (Len(calls) < Len(prev.texts) /\ text = prev.texts[Len(calls) + 1])
    /\ OnPrint(text)

DetReturn ==
    /\ Replaying => (Len(calls) = Len(prev.texts) /\ prev.exception = NoException)
    /\ RuntimeReturn

DetThrow(e) ==
    /\ Replaying => (Len(calls) = Len(prev.texts) /\ prev.exception = e)
    /\ RuntimeThrow(e)

NextDet ==
    \/ Tick
    \/ ClickRunRecording
    \/ \E text \in PrintTexts : DetOnPrint(text)
    \/ DetReturn
    \/ \E e \in Exceptions : DetThrow(e)
    \/ \E text \in PrintTexts : DeferredPrint(text)
    \/ \E name \in ExampleNames : SelectExample(name)
    \/ \E newCode \in EditorValues : EditorChange(newCode)
    \/ ReRender

SpecDet == Init /\ [][NextDet]_vars

\* ------------------------------------------------------- the tokenizer
\* registerLox hands Monarch an ordered rule table.  At each scan position
\* Monarch tries the rules in order against the rest of the line (each
\* regular expression anchored at the start of that rest) and takes the
\* first that matches; a character no rule matches becomes a token of the
\* default type.  A line is a sequence of one-character strings.

LowerCase == {"a", "b", "c", "d", "e", "f", "g", "h", "i", "j", "k", "l", "m",
              "n", "o", "p", "q", "r", "s", "t", "u", "v", "w", "x", "y", "z"}

UpperCase == {"A", "B", "C", "D", "E", "F", "G", "H", "I", "J", "K", "L", "M",
              "N", "O", "P", "Q", "R", "S", "T", "U", "V", "W", "X", "Y", "Z"}

\* \d
Digits == {"0", "1", "2", "3", "4", "5", "6", "7", "8", "9"}

\* \w
WordChars == LowerCase \cup UpperCase \cup Digits \cup {"_"}

\* [+\-*\/=!<>]
OperatorChars == {"+", "-", "*", "/", "=", "!", "<", ">"}

\* [{}()]
DelimiterChars == {"{", "}", "(", ")"}

\* the alternatives of the keyword rule, in the order they are written
Keywords ==
    << << "a", "n", "d" >>, << "c", "l", "a", "s", "s" >>, << "e", "l", "s", "e" >>,
       << "f", "a", "l", "s", "e" >>, << "f", "o", "r" >>, << "f", "u", "n" >>,
       << "i", "f" >>, << "n", "i", "l" >>, << "o", "r" >>,
       << "p", "r", "i", "n", "t" >>, << "r", "e", "t", "u", "r", "n" >>,
       << "s", "u", "p", "e", "r" >>, << "t", "h", "i", "s" >>,
       << "t", "r", "u", "e" >>, << "v", "a", "r" >>,
       << "w", "h", "i", "l", "e" >> >>

\* the characters the lines given to the tokenizer are made of
Alphabet == {"a", "n", "d", "o", "r", "x", "1", ".", "=", "/", " ", "\"", "("}

\* the lines given to the tokenizer
Lines == UNION {[1..n -> Alphabet] : n \in 1..MaxLen}

\* rest begins with the characters of w
StartsWith(rest, w) == Len(rest) >= Len(w) /\ SubSeq(rest, 1, Len(w)) = w

\* the number of consecutive characters of rest, from index from on, that
\* belong to S
Run(rest, from, S) ==
    CHOOSE k \in 0..Len(rest) :
        /\ from + k - 1 <= Len(rest)
        /\ \A i \in from..(from + k - 1) : rest[i] \in S
        /\ (from + k <= Len(rest) => rest[from + k] \notin S)

\* \b between index i and index i + 1 of rest
Boundary(rest, i) ==
    LET left  == i >= 1 /\ i <= Len(rest) /\ rest[i] \in WordChars
        right == i + 1 >= 1 /\ i + 1 <= Len(rest) /\ rest[i + 1] \in WordChars
    IN  left # right

\* /\b(and|class|...|while)\b/: the length matched at the start of rest, or 0
MatchKeyword(rest) ==
    LET fits(k) == /\ StartsWith(rest, Keywords[k])
                   /\ Boundary(rest, 0)
                   /\ Boundary(rest, Len(Keywords[k]))
    IN  IF \E k \in 1..Len(Keywords) : fits(k)
          THEN Len(Keywords[CHOOSE k \in 1..Len(Keywords) :
                              fits(k) /\ \A j \in 1..(k - 1) : ~fits(j)])
          ELSE 0

\* /".*?"/
MatchString(rest) ==
    IF Len(rest) >= 2 /\ rest[1] = "\"" /\ \E j \in 2..Len(rest) : rest[j] = "\""
      THEN CHOOSE j \in 2..Len(rest) :
              rest[j] = "\"" /\ \A i \in 2..(j - 1) : rest[i] # "\""
      ELSE 0

\* /\d+(\.\d+)?/
MatchNumber(rest) ==
    LET n == Run(rest, 1, Digits)
        m == IF n + 1 <= Len(rest) /\ rest[n + 1] = "." THEN Run(rest, n + 2, Digits) ELSE 0
    IN  IF n = 0 THEN 0 ELSE IF m > 0 THEN n + 1 + m ELSE n

\* /\/\/.*$/
MatchComment(rest) == IF StartsWith(rest, << "/", "/" >>) THEN Len(rest) ELSE 0

\* /[+\-*\/=!<>]=?|and|or/: the length matched and the alternative that
\* matched it
MatchOperator(rest) ==
    IF Len(rest) >= 1 /\ rest[1] \in OperatorChars
      THEN [len |-> IF Len(rest) >= 2 /\ rest[2] = "=" THEN 2 ELSE 1, branch |-> "symbol"]
      ELSE IF StartsWith(rest, << "a", "n", "d" >>)
             THEN [len |-> 3, branch |-> "word"]
             ELSE IF StartsWith(rest, << "o", "r" >>)
                    THEN [len |-> 2, branch |-> "word"]
                    ELSE [len |-> 0, branch |-> "none"]

\* /[a-zA-Z_]\w*/
MatchIdentifier(rest) ==
    IF Len(rest) >= 1 /\ rest[1] \in LowerCase \cup UpperCase \cup {"_"}
      THEN 1 + Run(rest, 2, WordChars)
      ELSE 0

\* /[{}()]/
MatchDelimiter(rest) == IF Len(rest) >= 1 /\ rest[1] \in DelimiterChars THEN 1 ELSE 0

\* tokenizer.root: the first rule that matches at the start of rest
Classify(rest) ==
    IF MatchKeyword(rest) > 0
      THEN [type |-> "keyword", len |-> MatchKeyword(rest), branch |-> "none"]
    ELSE IF MatchString(rest) > 0
      THEN [type |-> "string", len |-> MatchString(rest), branch |-> "none"]
    ELSE IF MatchNumber(rest) > 0
      THEN [type |-> "number", len |-> MatchNumber(rest), branch |-> "none"]
    ELSE IF MatchComment(rest) > 0
      THEN [type |-> "comment", len |-> MatchComment(rest), branch |-> "none"]
    ELSE IF MatchOperator(rest).len > 0
      THEN [type |-> "operator", len |-> MatchOperator(rest).len,
            branch |-> MatchOperator(rest).branch]
    ELSE IF MatchIdentifier(rest) > 0
      THEN [type |-> "identifier", len |-> MatchIdentifier(rest), branch |-> "none"]
    ELSE IF MatchDelimiter(rest) > 0
      THEN [type |-> "delimiter", len |-> MatchDelimiter(rest), branch |-> "none"]
    ELSE [type |-> "", len |-> 1, branch |-> "none"]

\* the editor hands the tokenizer a line
InitLexer ==
    /\ InitPlayground
    /\ line \in Lines
    /\ pos = 0
    /\ tokens = << >>

\* the tokenizer produces the token at the scan position
LexStep ==
    /\ pos < Len(line)
    /\ LET tok == Classify(SubSeq(line, pos + 1, Len(line)))
       IN  /\ tokens' = Append(tokens, [type |-> tok.type, branch |-> tok.branch,
                                        start |-> pos, len |-> tok.len])
           /\ pos' = pos + tok.len
    /\ UNCHANGED line
    /\ UNCHANGED appVars

NextLexer == LexStep

SpecLexer == InitLexer /\ [][NextLexer]_vars

\* ------------------------------------------------------------ properties

\* the callback invocations of the most recent run made inside wasm.run
SyncCalls == SelectSeq(calls, LAMBDA c : ~c.deferred)

TextsOf(seq) == [i \in 1..Len(seq) |-> seq[i].text]

PrintsOf(seq) == SelectSeq(seq, LAMBDA m : m.type = "Print")

ErrorsOf(seq) == SelectSeq(seq, LAMBDA m : m.type = "Error")

\* the most recent run has left runCode
RunDone == ran /\ pc = "idle"

\* the last n messages of the Session Log
LogTail(n) ==
    IF n <= Len(messages)
      THEN SubSeq(messages, Len(messages) - n + 1, Len(messages))
      ELSE << >>

IsPrefix(s, t) == Len(s) <= Len(t) /\ SubSeq(t, 1, Len(s)) = s

\* C1: a run in which the runtime raised a failure (of any shape) after N
\* print callbacks emits a batch of exactly N Print messages followed by
\* exactly one Error message, and nothing after the Error.
C1_FailureBatch ==
    (RunDone /\ exception.shape # "none") =>
        /\ flushed
        /\ Len(batch) = Len(SyncCalls) + 1
        /\ \A i \in 1..Len(SyncCalls) : batch[i].type = "Print"
        /\ batch[Len(batch)].type = "Error"

\* C2: a run in which the runtime raised a value that is neither an Error nor
\* a string adds exactly one Error message to the Session Log, and that
\* message carries a non-empty text.
C2_OpaqueReported ==
    (RunDone /\ exception.shape = "number") =>
        /\ LogTail(Len(batch)) = batch
        /\ Len(ErrorsOf(batch)) = 1
        /\ \A i \in 1..Len(batch) :
              batch[i].type = "Error" => batch[i].text \notin {"", Undefined}

\* C3: the Print messages a run contributes to the Session Log are one per
\* callback invocation made during the run, in invocation order, each with
\* the text that was passed to the callback.
C3_PrintOrder ==
    (RunDone /\ flushed) =>
        /\ Len(batch) <= Len(messages)
        /\ TextsOf(PrintsOf(LogTail(Len(batch)))) = TextsOf(SyncCalls)

\* two callback invocations with different texts were made during a run that
\* has completed
C3_Witness ==
    /\ RunDone /\ flushed
    /\ Len(SyncCalls) = 2
    /\ SyncCalls[1].text # SyncCalls[2].text

\* C4: once a run has handed its batch to the Session Log, every Print message
\* created by one of its callback invocations, synchronous or deferred, is in
\* the Session Log.
C4_NoPrintLost ==
    (RunDone /\ flushed) =>
        \A i \in 1..Len(emittedMessages) :
            emittedMessages[i].type = "Print" =>
                \E j \in 1..Len(messages) : messages[j] = emittedMessages[i]

\* C5: the Session Log is append-only: every step either leaves it as it was
\* or is the completion of a run and appends that run's batch to it, so the
\* earlier log is a prefix of the later one.
C5_AppendOnly ==
    [][ \/ messages' = messages
        \/ /\ pc = "running" /\ pc' = "idle" /\ flushed'
           /\ messages' = messages \o batch'
           /\ IsPrefix(messages, messages') ]_vars

\* the log holds the batch of the most recent run after messages of an
\* earlier run
C5_Witness ==
    /\ RunDone /\ flushed
    /\ Len(batch) > 0
    /\ Len(messages) > Len(batch)
    /\ LogTail(Len(batch)) = batch

\* C6: the ids of the messages in the Session Log are pairwise distinct, and
\* a message that is not in the log never carries the id of one that is.
C6_DistinctIds ==
    /\ \A i, j \in 1..Len(messages) : i # j => messages[i].id # messages[j].id
    /\ \A i, j \in 1..Len(emittedMessages) :
          i # j => emittedMessages[i].id # emittedMessages[j].id
    /\ \A i \in 1..Len(emittedMessages) : \A j \in 1..Len(messages) :
          emittedMessages[i].id = messages[j].id => emittedMessages[i] = messages[j]

\* the log holds messages of two runs and the callback has created a further
\* message since
C6_Witness ==
    /\ RunDone
    /\ Len(batch) > 0
    /\ Len(messages) > Len(batch)
    /\ Len(emittedMessages) > Len(batch)

\* C7: a failure raised by wasm.run never leaves runCode: the run ends
\* normally, its batch has been appended to the Session Log, the handlers see
\* the new log, and Run can be clicked again.
C7_FailureCaught ==
    (RunDone /\ exception.shape # "none") =>
        /\ flushed
        /\ LogTail(Len(batch)) = batch
        /\ rMessages = messages
        /\ ENABLED ClickRun

\* a run that printed and then failed with a value that is not an Error
\* object has completed
C7_Witness ==
    /\ RunDone
    /\ exception.shape \in {"string", "number"}
    /\ Len(SyncCalls) > 0
    /\ flushed

\* C8: the batch of a run in which the runtime raised no failure holds only
\* Print messages, one per callback invocation of the run, in emission order.
C8_SuccessNoError ==
    (RunDone /\ flushed /\ exception.shape = "none") =>
        /\ \A i \in 1..Len(batch) : batch[i].type = "Print"
        /\ TextsOf(batch) = TextsOf(SyncCalls)

\* a run that printed twice and raised no failure has completed
C8_Witness ==
    /\ RunDone /\ flushed
    /\ exception.shape = "none"
    /\ Len(batch) = 2

\* C9: a batch holds at most one Error message, and an Error message is the
\* last message of its batch.
C9_AtMostOneError ==
    flushed =>
        /\ Len(ErrorsOf(batch)) <= 1
        /\ \A i \in 1..Len(batch) : batch[i].type = "Error" => i = Len(batch)

\* a batch with a Print message followed by an Error message
C9_Witness ==
    /\ flushed
    /\ Len(batch) >= 2
    /\ batch[1].type = "Print"
    /\ batch[Len(batch)].type = "Error"

\* C10: the Error message of a run carries the failure's own text: the message
\* field of a thrown Error object, the string itself of a thrown string.
C10_ErrorText ==
    (RunDone /\ flushed /\ exception.shape \in {"Error", "string"}) =>
        /\ Len(batch) > 0
        /\ batch[Len(batch)].type = "Error"
        /\ batch[Len(batch)].text =
              (IF exception.shape = "Error" THEN exception.message ELSE exception.value)

\* the bare string "stack overflow" was thrown and is the text of the run's
\* Error message in the Session Log
C10_Witness ==
    /\ RunDone /\ flushed
    /\ exception = [shape |-> "string", value |-> "stack overflow"]
    /\ Len(messages) > 0
    /\ messages[Len(messages)].type = "Error"
    /\ messages[Len(messages)].text = "stack overflow"

\* the code of the catalog entry called name
CatalogCode(name) ==
    (CHOOSE ex \in {examples[i] : i \in 1..Len(examples)} : ex.name = name).code

\* C11: a run's output reaches the Session Log in one step: while the run is
\* in progress none of its messages is in the log, and every step that
\* changes the log is the end of a run and appends everything the run's array
\* holds, as one block behind what the log held.
C11_AtomicFlush ==
    [][ /\ pc' = "running" =>
              \A i \in 1..Len(emittedMessages') : \A j \in 1..Len(messages') :
                  messages'[j] # emittedMessages'[i]
        /\ messages' # messages =>
              /\ pc = "running" /\ pc' = "idle"
              /\ messages' = messages \o emittedMessages' ]_vars

\* a run is in progress with two buffered messages while the log holds a
\* message of an earlier run
C11_Witness ==
    /\ pc = "running"
    /\ Len(emittedMessages) = 2
    /\ Len(messages) > 0

\* C12: no step of a run changes the Source Buffer: from the click on Run to
\* the return of runCode, whether wasm.run returns or throws, `code` stays
\* what it was.
C12_RunKeepsCode ==
    [][ (pc = "running" \/ pc' = "running") => code' = code ]_vars

\* a run that printed and then failed has completed on an edited buffer, and
\* the buffer still holds the text the run was given
C12_Witness ==
    /\ RunDone /\ flushed
    /\ exception.shape = "Error"
    /\ Len(batch) = 2
    /\ lastInput.kind = "edit"
    /\ code = source
    /\ code # examples[1].code

\* C13: a step that selects a catalog entry by name leaves the Source Buffer
\* holding exactly that entry's code, whatever it held before, and leaves the
\* Session Log as it was.
C13_SelectReplaces ==
    [][ (lastInput' # lastInput /\ lastInput'.kind = "select"
           /\ lastInput'.arg \in ExampleNames) =>
            /\ code' = CatalogCode(lastInput'.arg)
            /\ messages' = messages ]_vars

\* "Fibonacci" was selected over an edited buffer while the log held messages
C13_Witness ==
    /\ lastInput = [kind |-> "select", arg |-> "Fibonacci"]
    /\ code = examples[2].code
    /\ source = "print x;"
    /\ Len(messages) > 0

\* C14: a step taken while no run is in progress (an edit, an example
\* selection, a re-render, a late callback, the click on Run itself) leaves
\* the Session Log as it was.
C14_OnlyRunChangesLog ==
    [][ pc = "idle" => messages' = messages ]_vars

\* the editor reported a change after a run had put messages in the log
C14_Witness ==
    /\ RunDone
    /\ Len(messages) > 0
    /\ lastInput.kind = "edit"
    /\ code # source

\* C15: a run given the same source text as the run before it, against a
\* runtime that behaves the same way for that text, emits a batch with the
\* same sequence of (type, text) pairs, whatever the log held.
C15_Idempotent ==
    (RunDone /\ flushed /\ prev.valid /\ prev.source = source) =>
        KindText(batch) = prev.kt

\* the same text was run twice in a row, each run emitted messages, and the
\* log held the first run's messages when the second ran
C15_Witness ==
    /\ RunDone /\ flushed
    /\ prev.valid /\ prev.source = source
    /\ Len(batch) > 0
    /\ Len(messages) >= 2 * Len(batch)
    /\ batch[1].id # messages[1].id

\* C17: the text a run passes to wasm.run is the Source Buffer at the time of
\* the click: the value the last edit or example selection produced, or the
\* first example's code when there was none.
C17_RunsCurrentBuffer ==
    pc = "running" =>
        /\ source = code
        /\ lastInput.kind = "none" => source = examples[1].code
        /\ (lastInput.kind = "edit" /\ lastInput.arg # Undefined) => source = lastInput.arg
        /\ (lastInput.kind = "select" /\ lastInput.arg \in ExampleNames) =>
              source = CatalogCode(lastInput.arg)

\* Run was clicked after "Fibonacci" had been selected, with an earlier run's
\* messages in the log
C17_Witness ==
    /\ pc = "running"
    /\ lastInput = [kind |-> "select", arg |-> "Fibonacci"]
    /\ source = examples[2].code
    /\ Len(messages) > 0

\* the texts the Source Buffer can hold
SourceTexts ==
    {examples[i].code : i \in 1..Len(examples)} \cup (EditorValues \ {Undefined}) \cup {""}

\* C18: the Source Buffer is a defined string in every state: the first
\* example's code until the first change, the empty string after the editor
\* reported undefined, the empty string after a selection whose name matches
\* no catalog entry.
C18_CodeDefined ==
    /\ code # Undefined
    /\ rCode # Undefined
    /\ code \in SourceTexts
    /\ lastInput.kind = "none" => code = examples[1].code
    /\ lastInput = [kind |-> "edit", arg |-> Undefined] => code = ""
    /\ (lastInput.kind = "select" /\ lastInput.arg \notin ExampleNames) => code = ""

\* a name that matches no catalog entry was selected and the buffer is empty
C18_Witness ==
    /\ lastInput = [kind |-> "select", arg |-> "Missing"]
    /\ code = ""
    /\ rCode = ""

\* C16: the 'and' / 'or' alternatives of the operator rule never match: no
\* token of any line, at any scan position, is classified as operator
\* through them.
C16_WordBranchDead ==
    \A i \in 1..Len(tokens) :
        ~(tokens[i].type = "operator" /\ tokens[i].branch = "word")

====
